---- MODULE Spec2Model ----
(***************************************************************************)
(* A model of the EventEmitter class of src/mod.ts (denosaurs/event).      *)
(*                                                                         *)
(* The emitter's fields are the variables limit, listeners, onWriters and  *)
(* globalWriters.  Writer arrays are JavaScript objects with identity: a   *)
(* for-of loop over one keeps reading the same array while the emitter may *)
(* already hold another one, so the arrays live in a heap (arrays) and the *)
(* fields hold references into it.  Every pull consumer is an identity     *)
(* TransformStream (writable high-water mark 1, readable high-water mark   *)
(* 0): a write is taken out of the writable side's queue only when the     *)
(* reader has a read request pending, a close is queued behind the writes  *)
(* already queued, and write/close on a closing or closed writer rejects.  *)
(*                                                                         *)
(* JavaScript runs one job at a time: the synchronous part of a call runs  *)
(* to its first await without interleaving (the variable stack holds the   *)
(* emit calls that are running synchronously, nested when a listener       *)
(* callback emits), and a suspended emit or off continues in a later job   *)
(* (EmitResume, OffResume), between which other calls may be made.         *)
(*                                                                         *)
(* Listener callbacks return normally: the effect of a callback that       *)
(* throws is left open by spec.md section 7.                               *)
(***************************************************************************)
EXTENDS Integers, Sequences, FiniteSets, TLC

\* ---------------------------------------------------------------- bounds
MaxCalls == 5      \* calls made into the emitter in one behaviour
MaxDepth == 2      \* nesting depth up to which the callback "again" re-emits
DefaultLimit == 10 \* maxListenersPerEvent ?? 10

Names == {"foo", "bar"}
\* Listener functions, by identity.  What each one does when called:
\*   "f"       nothing
\*   "adder"   on(name, "f"), swallowing the limit error (not counted in thrown)
\*   "remover" off(name, "f")
\*   "again"   emit(name, ...) unless already nested MaxDepth deep
\*   "sub"     on(name), which creates a pull consumer on the event
\* (all but "f" only while the behaviour has calls left)
Callbacks == {"f", "adder", "remover", "again"}
Subscribers == {"sub"}
\* The function a caller passes to on(cb) to hear every event.
GlobalCallbacks == {"g"}
\* (on(cb), with a function as the only argument, takes the function for the
\* event name: it becomes a property key of onWriters.)
\* The payload of the k-th emit call of a behaviour: all different.
Payloads == [k \in 1..(MaxCalls + 1) |-> k]

VARIABLES
  limit,          \* this.limit
  listeners,      \* this.listeners: name -> sequence of entries {once, cb}
  onWriters,      \* this.onWriters: insertion-ordered <<[key, arr]>>
  globalWriters,  \* this.globalWriters: a reference into arrays
  arrays,         \* heap of writer arrays: arrays[a] is a sequence of streams
  streams,        \* the TransformStream behind every consumer
  emits,          \* every emit call made so far, running, suspended or settled
  offs,           \* every off(name) / off() call made so far
  stack,          \* emit calls in their synchronous part, innermost last
  nregs,          \* listener entries created so far (entry identities)
  globalCbs,      \* functions passed to on(cb) so far
  offTargets,     \* entries that some off(name) / off() call was to remove
  ncalls,         \* calls made into the emitter so far
  thrown,         \* registration calls that threw "Listeners limit reached"
  promises        \* the promises returned by once(name), pending (value
                  \* <<>>) or resolved with the arguments of an emit

vars == <<limit, listeners, onWriters, globalWriters, arrays, streams, emits,
          offs, stack, nregs, globalCbs, offTargets, ncalls, thrown, promises>>

\* ------------------------------------------------------------- helpers
\* The state of the program as one record, so that an operation is a function
\* from state to state and a callback can run one inside another.
Cur ==
  [limit |-> limit, listeners |-> listeners, onWriters |-> onWriters,
   globalWriters |-> globalWriters, arrays |-> arrays, streams |-> streams,
   emits |-> emits, offs |-> offs, stack |-> stack, nregs |-> nregs,
   globalCbs |-> globalCbs, offTargets |-> offTargets, ncalls |-> ncalls,
   thrown |-> thrown, promises |-> promises]

Commit(st) ==
  /\ limit' = st.limit
  /\ listeners' = st.listeners
  /\ onWriters' = st.onWriters
  /\ globalWriters' = st.globalWriters
  /\ arrays' = st.arrays
  /\ streams' = st.streams
  /\ emits' = st.emits
  /\ offs' = st.offs
  /\ stack' = st.stack
  /\ nregs' = st.nregs
  /\ globalCbs' = st.globalCbs
  /\ offTargets' = st.offTargets
  /\ ncalls' = st.ncalls
  /\ thrown' = st.thrown
  /\ promises' = st.promises

\* this.onWriters[key]: the array reference, 0 for undefined
WritersOf(map, key) ==
  IF \E i \in 1..Len(map) : map[i].key = key
  THEN map[CHOOSE i \in 1..Len(map) : map[i].key = key].arr
  ELSE 0

\* (this.listeners = {} where only one event's list was to go)
DeleteListenersAll(ls, name) == [k \in Names |-> <<>>]

\* delete this.listeners[eventName]
DeleteListeners(ls, name) == [ls EXCEPT ![name] = <<>>]

\* delete this.onWriters[key]
DeleteKey(map, key) == SelectSeq(map, LAMBDA m : m.key # key)

\* Object.values(this.onWriters)
ObjectValues(map) == [i \in 1..Len(map) |-> map[i].arr]

\* (a check that lets one entry too many in)
LimitReachedLate(lim, len) == lim # 0 /\ len > lim

\* this.limit !== 0 && length >= this.limit
LimitReached(lim, len) == lim # 0 /\ len >= lim

\* the entries of a listener list, as their identities
Ids(ls) == {ls[i].id : i \in 1..Len(ls)}

\* ---------------------------------------------------------------- Init
\* new EventEmitter(maxListenersPerEvent)
InitWith(maxListenersPerEvent) ==
  /\ limit = maxListenersPerEvent
  /\ listeners = [k \in Names |-> <<>>]
  /\ onWriters = <<>>
  /\ arrays = << <<>> >>
  /\ globalWriters = 1
  /\ streams = <<>>
  /\ emits = <<>>
  /\ offs = <<>>
  /\ stack = <<>>
  /\ nregs = 0
  /\ globalCbs = {}
  /\ offTargets = {}
  /\ ncalls = 0
  /\ thrown = 0
  /\ promises = <<>>

Init == InitWith(DefaultLimit)

\* No call is in its synchronous part: a new job may start.
Idle == stack = <<>>

\* A call is made: from outside when no call is running, or by a callback.
CanCall(st) == st.ncalls < MaxCalls

Called(st) == [st EXCEPT !.ncalls = @ + 1]

\* throw new TypeError("Listeners limit reached: limit is " + this.limit)
Throw(st) == [st EXCEPT !.thrown = @ + 1]

\* ------------------------------------------------- on / once (listeners)
\* (a registration that pushes its entry before it looks at the limit)
DoRegisterPushFirst(st, name, once, cb) ==
  LET st1 == [st EXCEPT
                !.listeners[name] =
                   Append(@, [once |-> once, cb |-> cb, id |-> st.nregs + 1]),
                !.nregs = @ + 1]
  IN IF LimitReached(st.limit, Len(st.listeners[name])) THEN Throw(st1) ELSE st1

\* on(eventName, listener) and once(eventName, listener): the limit check,
\* then listeners[eventName].push({once, cb}).  A call that throws changes
\* nothing.
DoRegister(st, name, once, cb) ==
  IF LimitReached(st.limit, Len(st.listeners[name]))
  THEN Throw(st)
  ELSE [st EXCEPT
          !.listeners[name] =
             Append(@, [once |-> once, cb |-> cb, id |-> st.nregs + 1]),
          !.nregs = @ + 1]

On(name, cb) ==
  /\ Idle
  /\ CanCall(Cur)
  /\ Commit(DoRegister(Called(Cur), name, FALSE, cb))

Once(name, cb) ==
  /\ Idle
  /\ CanCall(Cur)
  /\ Commit(DoRegister(Called(Cur), name, TRUE, cb))

\* once(eventName) without a listener: the same limit check, then a promise
\* whose executor pushes {once: true, cb: (...args) => res(args)}.  The
\* function is a new one at every call: ResCb(k) is that of the k-th promise.
ResCb(k) == "res" \o ToString(k)

DoOncePromise(st, name) ==
  LET k == Len(st.promises) + 1
      st1 == DoRegister(st, name, TRUE, ResCb(k))
  IN IF st1.thrown # st.thrown
     THEN st1
     ELSE [st1 EXCEPT
             !.promises = Append(@, [name |-> name, cb |-> ResCb(k),
                                     born |-> Len(st.emits), value |-> <<>>])]

OncePromise(name) ==
  /\ Idle
  /\ CanCall(Cur)
  /\ Commit(DoOncePromise(Called(Cur), name))

\* res(args): resolves the promise unless it is resolved already.
Resolve(ps, cb, args) ==
  [k \in 1..Len(ps) |->
     IF ps[k].cb = cb /\ ps[k].value = <<>> THEN [ps[k] EXCEPT !.value = args]
     ELSE ps[k]]

\* (a removal that takes out the first entry of the function only)
FilterOutFirst(ls, cb) ==
  IF \E i \in 1..Len(ls) : ls[i].cb = cb
  THEN LET i == CHOOSE x \in 1..Len(ls) :
                  ls[x].cb = cb /\ \A y \in 1..(x - 1) : ls[y].cb # cb
       IN SubSeq(ls, 1, i - 1) \o SubSeq(ls, i + 1, Len(ls))
  ELSE ls

\* off(eventName, listener): filter(({cb}) => cb !== listener)
FilterOut(ls, cb) == SelectSeq(ls, LAMBDA en : en.cb # cb)

DoOffListener(st, name, cb) ==
  [st EXCEPT !.listeners[name] = FilterOut(@, cb)]

\* (called for a function that is registered: otherwise nothing changes)
OffListener(name, cb) ==
  /\ Idle
  /\ CanCall(Cur)
  /\ \E i \in 1..Len(listeners[name]) : listeners[name][i].cb = cb
  /\ Commit(DoOffListener(Called(Cur), name, cb))

\* ------------------------------------------------------------- streams
\* new TransformStream(): nothing queued, no read request, open.
\* key is the event name the consumer was created for, "*" for a global one;
\* written lists the chunks the writer accepted, received those the reader
\* got, done says that the reader has seen the end of the sequence.
NewStream(key) ==
  [key |-> key, wq |-> <<>>, state |-> "open", closer |-> 0,
   reading |-> FALSE, written |-> <<>>, received |-> <<>>, done |-> FALSE]

\* writer.write(chunk), called by emit e.  A closing or closed writer rejects;
\* with a read request pending the chunk goes straight to the reader;
\* otherwise the write waits in the queue for the reader's next pull.
WriteOutcome(sr) ==
  IF sr.state # "open" THEN "rejected"
  ELSE IF sr.reading THEN "delivered"
  ELSE "queued"

StreamAfterWrite(sr, e, chunk) ==
  CASE WriteOutcome(sr) = "rejected" -> sr
    [] WriteOutcome(sr) = "delivered" ->
         [sr EXCEPT !.written = Append(@, chunk),
                    !.received = Append(@, chunk), !.reading = FALSE]
    [] OTHER ->
         [sr EXCEPT !.written = Append(@, chunk),
                    !.wq = Append(@, [e |-> e, chunk |-> chunk])]

\* writer.close(), called by off o.  A closing or closed writer rejects; the
\* close is queued behind the writes already queued, and with none queued the
\* stream closes and a pending read request gets end-of-sequence.
CloseOutcome(sr) ==
  IF sr.state # "open" THEN "rejected"
  ELSE IF sr.wq = <<>> THEN "closed"
  ELSE "queued"

\* (a close that throws the queued writes away instead of waiting for them)
StreamAfterCloseDropping(sr, o) ==
  IF CloseOutcome(sr) = "rejected" THEN sr
  ELSE [sr EXCEPT !.state = "closed", !.wq = <<>>, !.reading = FALSE,
                  !.done = (sr.done \/ sr.reading)]

StreamAfterClose(sr, o) ==
  CASE CloseOutcome(sr) = "rejected" -> sr
    [] CloseOutcome(sr) = "closed" ->
         [sr EXCEPT !.state = "closed", !.reading = FALSE,
                    !.done = (sr.done \/ sr.reading)]
    [] OTHER -> [sr EXCEPT !.state = "closing", !.closer = o]

\* on(eventName) without a listener: the limit check against
\* onWriters[eventName], a new TransformStream, its writer pushed onto the
\* array (created on first use).
DoOnConsumer(st, key) ==
  LET a == WritersOf(st.onWriters, key)
      len == IF a = 0 THEN 0 ELSE Len(st.arrays[a])
      s == Len(st.streams) + 1
  IN IF LimitReached(st.limit, len)
     THEN Throw(st)
     ELSE IF a = 0
     THEN [st EXCEPT
             !.arrays = Append(@, <<s>>),
             !.onWriters = Append(@, [key |-> key, arr |-> Len(st.arrays) + 1]),
             !.streams = Append(@, NewStream(key))]
     ELSE [st EXCEPT
             !.arrays[a] = Append(@, s),
             !.streams = Append(@, NewStream(key))]

OnConsumer(name) ==
  /\ Idle
  /\ CanCall(Cur)
  /\ Commit(DoOnConsumer(Called(Cur), name))

\* on(cb): the function lands in the eventName parameter and listener is
\* undefined, so this is on(eventName) with the function as the key.
OnGlobalListener(cb) ==
  /\ Idle
  /\ CanCall(Cur)
  /\ Commit([DoOnConsumer(Called(Cur), cb) EXCEPT !.globalCbs = @ \cup {cb}])

\* [Symbol.asyncIterator](): the limit check against globalWriters, a new
\* TransformStream, its writer pushed onto globalWriters.
DoIterate(st) ==
  IF LimitReached(st.limit, Len(st.arrays[st.globalWriters]))
  THEN Throw(st)
  ELSE [st EXCEPT
          !.arrays[st.globalWriters] = Append(@, Len(st.streams) + 1),
          !.streams = Append(@, NewStream("*"))]

Iterate ==
  /\ Idle
  /\ CanCall(Cur)
  /\ Commit(DoIterate(Called(Cur)))

\* ---------------------------------------------------------------- emit
\* What emit passes on: args to a per-event writer, {name, value: args} to a
\* global one.
Args(payload) == <<payload>>

Chunk(phase, name, payload) ==
  IF phase = "globalWriters"
  THEN [name |-> name, value |-> Args(payload)]
  ELSE Args(payload)

\* const listeners = this.listeners[eventName]?.slice() ?? []
Slice(ls) == ls

\* The list the listener loop walks: the copy made when the call started, not
\* the live list.
PassListLive(snap, live) == live

PassList(snap, live) == snap

\* The three loops of emit, in the order of the code.
PhaseAfterSwapped(phase) ==
  CASE phase = "listeners" -> "globalWriters"
    [] phase = "globalWriters" -> "onWriters"
    [] OTHER -> "done"

\* (emit without its loop over this.globalWriters)
PhaseAfterNoGlobal(phase) ==
  CASE phase = "listeners" -> "onWriters"
    [] OTHER -> "done"

PhaseAfter(phase) ==
  CASE phase = "listeners" -> "onWriters"
    [] phase = "onWriters" -> "globalWriters"
    [] OTHER -> "done"

\* The array a writer loop walks, read when the loop starts: 0 when
\* this.onWriters[eventName] is undefined.
PhaseArray(st, phase, name) ==
  CASE phase = "onWriters" -> WritersOf(st.onWriters, name)
    [] phase = "globalWriters" -> st.globalWriters
    [] OTHER -> 0

\* An event of one emit call: a listener called ("cb": entry x = {once, cb},
\* arguments v) or a writer written ("w": stream x in state st, chunk v).
CbEvent(en, args) ==
  [t |-> "cb", x |-> en.id, cb |-> en.cb, once |-> en.once, v |-> args,
   st |-> "-"]

WriteEvent(s, chunk, state) ==
  [t |-> "w", x |-> s, cb |-> "-", once |-> FALSE, v |-> chunk, st |-> state]

\* The loop variables {cb, once} before the first listener is reached.
NoEntry == [once |-> FALSE, cb |-> "-", id |-> 0]

\* emit(eventName, ...args) is called: the snapshot is taken and the call
\* starts its synchronous part.  start, banned and globals record, for the
\* properties, the live list, the entries off was to remove and the functions
\* given to on(cb), all at the time of the call; made lists the consumers
\* that the callbacks of the call create.
DoEmitStart(st, name, payload) ==
  [st EXCEPT
     !.emits = Append(@,
        [name |-> name, payload |-> payload,
         snap |-> Slice(st.listeners[name]), start |-> st.listeners[name],
         i |-> 1, cur |-> NoEntry, phase |-> "listeners", arr |-> 0, j |-> 0,
         status |-> "running", trace |-> <<>>,
         banned |-> st.offTargets, globals |-> st.globalCbs, made |-> <<>>,
         depth |-> Len(st.stack) + 1]),
     !.stack = Append(@, Len(st.emits) + 1)]

Emit(name) ==
  /\ Idle
  /\ CanCall(Cur)
  /\ Commit(DoEmitStart(Called(Cur), name, Payloads[Len(emits) + 1]))

\* if (once) this.off(eventName, cb), then on to the next listener
AfterCallback(st, e) ==
  LET em == st.emits[e]
      en == em.cur
      st1 == IF en.once THEN DoOffListener(st, em.name, en.cb) ELSE st
  IN [st1 EXCEPT !.emits[e].i = @ + 1, !.emits[e].status = "running"]

\* What a listener function does when called from emit e.
CallbackBody(st, e, cb) ==
  LET em == st.emits[e]
  IN CASE cb = "adder" /\ CanCall(st) ->
            [DoRegister(Called(st), em.name, FALSE, "f") EXCEPT
               !.thrown = st.thrown]
       [] cb = "remover" /\ CanCall(st) ->
            DoOffListener(Called(st), em.name, "f")
       [] cb \in Subscribers /\ CanCall(st) ->
            LET st1 == DoOnConsumer(Called(st), em.name)
            IN IF Len(st1.streams) > Len(st.streams)
               THEN [st1 EXCEPT !.emits[e].made = Append(@, Len(st1.streams))]
               ELSE [st1 EXCEPT !.thrown = st.thrown]
       [] \E k \in 1..Len(st.promises) : st.promises[k].cb = cb ->
            [st EXCEPT !.promises = Resolve(@, cb, Args(em.payload))]
       [] OTHER -> st

Nests(st, cb) == cb = "again" /\ Len(st.stack) < MaxDepth /\ CanCall(st)

\* cb(...args) for the next listener of the innermost running emit.  A
\* callback that emits leaves this call waiting for the nested one to return.
ListenerStep ==
  /\ stack # <<>>
  /\ LET e == stack[Len(stack)]
         em == emits[e]
         lst == PassList(em.snap, listeners[em.name])
     IN /\ em.phase = "listeners"
        /\ em.status = "running"
        /\ em.i <= Len(lst)
        /\ LET en == lst[em.i]
               st0 == [Cur EXCEPT
                         !.emits[e].cur = en,
                         !.emits[e].trace = Append(@, CbEvent(en, Args(em.payload)))]
           IN IF Nests(st0, en.cb)
              THEN Commit(DoEmitStart(
                            Called([st0 EXCEPT !.emits[e].status = "incall"]),
                            em.name, Payloads[Len(emits) + 1]))
              ELSE Commit(AfterCallback(CallbackBody(st0, e, en.cb), e))

\* The writer loops of emit e from its place (phase, arr, j): the next writer
\* of the array being walked (its length read afresh), or else the next loop,
\* whose array is read at that moment.  s = 0: no writer is left.
RECURSIVE Seek(_, _, _, _, _)
Seek(st, name, phase, arr, j) ==
  IF phase = "done"
  THEN [phase |-> "done", arr |-> 0, j |-> 0, s |-> 0]
  ELSE IF arr # 0 /\ j <= Len(st.arrays[arr])
  THEN [phase |-> phase, arr |-> arr, j |-> j, s |-> st.arrays[arr][j]]
  ELSE Seek(st, name, PhaseAfter(phase),
            PhaseArray(st, PhaseAfter(phase), name), 1)

\* (a write that is not awaited: the loop goes on while the write is queued)
AwaitStatusNoWait(outcome) ==
  CASE outcome = "rejected" -> "rejected"
    [] OTHER -> "ready"

\* await writer.write(...): what becomes of the emit call, by the outcome of
\* the write.
AwaitStatus(outcome) ==
  CASE outcome = "rejected" -> "rejected"
    [] outcome = "delivered" -> "ready"
    [] OTHER -> "waiting"

\* (an emit that writes to the consumers that were there before its listener
\* loop: those that its callbacks created are passed over)
RECURSIVE EmitRunSnapshot(_, _, _, _, _)
EmitRunSnapshot(st, e, phase, arr, j) ==
  LET em == st.emits[e]
      to == Seek(st, em.name, phase, arr, j)
      sr == st.streams[to.s]
      chunk == Chunk(to.phase, em.name, em.payload)
  IN IF to.s = 0
     THEN [st EXCEPT !.emits[e].phase = "done", !.emits[e].arr = 0,
                     !.emits[e].j = 0, !.emits[e].status = "resolved"]
     ELSE IF \E m \in 1..Len(em.made) : em.made[m] = to.s
     THEN EmitRunSnapshot(st, e, to.phase, to.arr, to.j + 1)
     ELSE [st EXCEPT
             !.emits[e].phase = to.phase, !.emits[e].arr = to.arr,
             !.emits[e].j = to.j,
             !.emits[e].status = AwaitStatus(WriteOutcome(sr)),
             !.emits[e].trace = Append(@, WriteEvent(to.s, chunk, sr.state)),
             !.streams[to.s] = StreamAfterWrite(sr, e, chunk)]

\* Emit e runs on from place (phase, arr, j) to its next await, or to its end:
\* await writer.write(...) on the next writer.  The promise of a write that
\* was rejected rejects the emit; a write that went through leaves the emit
\* "ready" to continue in a later job; a queued one leaves it "waiting".
EmitRun(st, e, phase, arr, j) ==
  LET em == st.emits[e]
      to == Seek(st, em.name, phase, arr, j)
      sr == st.streams[to.s]
      chunk == Chunk(to.phase, em.name, em.payload)
      status == AwaitStatus(WriteOutcome(sr))
  IN IF to.s = 0
     THEN [st EXCEPT !.emits[e].phase = "done", !.emits[e].arr = 0,
                     !.emits[e].j = 0, !.emits[e].status = "resolved"]
     ELSE [st EXCEPT
             !.emits[e].phase = to.phase, !.emits[e].arr = to.arr,
             !.emits[e].j = to.j, !.emits[e].status = status,
             !.emits[e].trace = Append(@, WriteEvent(to.s, chunk, sr.state)),
             !.streams[to.s] = StreamAfterWrite(sr, e, chunk)]

\* The listener loop of the innermost running emit is over: the call goes on
\* to its writer loops, up to the first await, and returns its promise.  A
\* nested call returns into the callback that made it, which returns too.
EmitToWriters ==
  /\ stack # <<>>
  /\ LET e == stack[Len(stack)]
         em == emits[e]
         lst == PassList(em.snap, listeners[em.name])
         p == PhaseAfter("listeners")
         st1 == EmitRun(Cur, e, p, PhaseArray(Cur, p, em.name), 1)
         st2 == [st1 EXCEPT !.stack = SubSeq(@, 1, Len(@) - 1)]
     IN /\ em.phase = "listeners"
        /\ em.status = "running"
        /\ em.i > Len(lst)
        /\ IF Len(stack) > 1
           THEN Commit(AfterCallback(st2, stack[Len(stack) - 1]))
           ELSE Commit(st2)

\* The write an emit awaited has completed: the loop goes on to the next
\* writer.
EmitResume(e) ==
  /\ Idle
  /\ e \in 1..Len(emits)
  /\ emits[e].status = "ready"
  /\ Commit(EmitRun(Cur, e, emits[e].phase, emits[e].arr, emits[e].j + 1))

\* reader.next() on consumer s, by a reader with no read outstanding that
\* has not seen the end: the oldest queued write is taken (and a close queued
\* right behind it then closes the stream); a closed stream gives
\* end-of-sequence; otherwise the read request stays pending.
DoReaderNext(st, s) ==
  LET sr == st.streams[s]
  IN IF sr.wq # <<>>
     THEN LET w == Head(sr.wq)
              closes == sr.state = "closing" /\ Len(sr.wq) = 1
              st1 == [st EXCEPT
                        !.streams[s].wq = Tail(@),
                        !.streams[s].received = Append(@, w.chunk),
                        !.streams[s].state = IF closes THEN "closed" ELSE @,
                        !.emits[w.e].status = "ready"]
          IN IF closes
             THEN [st1 EXCEPT !.offs[sr.closer].status = "ready"]
             ELSE st1
     ELSE IF sr.state = "closed"
     THEN [st EXCEPT !.streams[s].done = TRUE]
     ELSE [st EXCEPT !.streams[s].reading = TRUE]

ReaderNext(s) ==
  /\ Idle
  /\ s \in 1..Len(streams)
  /\ ~streams[s].reading
  /\ ~streams[s].done
  /\ Commit(DoReaderNext(Cur, s))

\* ----------------------------------------------------------------- off
\* The close loops of off o from its place.  In the "onWriters" loop the call
\* walks vals[k] (the one array of off(name), or the Object.values() of
\* off()), each array read live; in the "globalWriters" loop it walks garr.
\* When the loops of off(name) are over: delete this.onWriters[name] (only
\* inside the if that found it) and delete this.listeners[name].  When the
\* first loops of off() are over: this.onWriters = {}, then the loop over
\* this.globalWriters; after it: this.globalWriters = [], this.listeners = {}.
\* A close that is rejected rejects the off, which stops right there.
RECURSIVE OffRun(_, _)
OffRun(st, o) ==
  LET r == st.offs[o]
  IN CASE r.phase = "onWriters" /\ r.k > Len(r.vals) /\ ~r.all ->
            [st EXCEPT
               !.onWriters = IF r.vals = <<>> THEN @ ELSE DeleteKey(@, r.target),
               !.listeners = DeleteListeners(@, r.target),
               !.offs[o].phase = "done", !.offs[o].status = "resolved"]
       [] r.phase = "onWriters" /\ r.k > Len(r.vals) /\ r.all ->
            OffRun([st EXCEPT
                      !.onWriters = <<>>,
                      !.offs[o].phase = "globalWriters",
                      !.offs[o].garr = st.globalWriters,
                      !.offs[o].j = 1], o)
       [] r.phase = "onWriters" /\ r.k <= Len(r.vals)
          /\ r.j > Len(st.arrays[r.vals[r.k]]) ->
            OffRun([st EXCEPT !.offs[o].k = @ + 1, !.offs[o].j = 1], o)
       [] r.phase = "globalWriters" /\ r.j > Len(st.arrays[r.garr]) ->
            [st EXCEPT
               !.arrays = Append(@, <<>>),
               !.globalWriters = Len(st.arrays) + 1,
               !.listeners = [k \in Names |-> <<>>],
               !.offs[o].phase = "done", !.offs[o].status = "resolved"]
       [] OTHER ->
            LET s == IF r.phase = "onWriters"
                     THEN st.arrays[r.vals[r.k]][r.j]
                     ELSE st.arrays[r.garr][r.j]
                sr == st.streams[s]
                status == CASE CloseOutcome(sr) = "rejected" -> "rejected"
                            [] CloseOutcome(sr) = "closed" -> "ready"
                            [] OTHER -> "waiting"
            IN [st EXCEPT
                  !.offs[o].status = status,
                  !.offs[o].closed = Append(@, s),
                  !.streams[s] = StreamAfterClose(sr, o)]

\* off(name) or off() is called (all: the form without arguments) and runs
\* to its first await, or to its end when there is nothing to close.
DoOffStart(st, target, all) ==
  LET a == WritersOf(st.onWriters, target)
      vals == IF all THEN ObjectValues(st.onWriters)
              ELSE IF a = 0 THEN <<>> ELSE <<a>>
      aimed == IF all THEN UNION {Ids(st.listeners[k]) : k \in Names}
               ELSE Ids(st.listeners[target])
      o == Len(st.offs) + 1
  IN OffRun([st EXCEPT
               !.offs = Append(@,
                  [target |-> target, all |-> all, vals |-> vals, k |-> 1,
                   j |-> 1, phase |-> "onWriters", garr |-> 0,
                   status |-> "running", closed |-> <<>>]),
               !.offTargets = @ \cup aimed], o)

OffName(name) ==
  /\ Idle
  /\ CanCall(Cur)
  /\ Commit(DoOffStart(Called(Cur), name, FALSE))

OffAll ==
  /\ Idle
  /\ CanCall(Cur)
  /\ Commit(DoOffStart(Called(Cur), "*", TRUE))

\* The close an off awaited has completed: the loop goes on to the next
\* writer.
OffResume(o) ==
  /\ Idle
  /\ o \in 1..Len(offs)
  /\ offs[o].status = "ready"
  /\ Commit(OffRun([Cur EXCEPT !.offs[o].j = @ + 1], o))

\* ------------------------------------------------------- specifications
\* Calls into the emitter start when no call is running; the steps of a
\* running or suspended call are the program's own.
Steps ==
  \/ ListenerStep
  \/ EmitToWriters
  \/ \E e \in 1..MaxCalls : EmitResume(e)
  \/ \E o \in 1..MaxCalls : OffResume(o)

\* The emitter with listeners, pull consumers, their readers, emit and off,
\* on two events.  The listeners registered are the function "f", which does
\* nothing.
Next ==
  \/ \E n \in Names : On(n, "f")
  \/ \E n \in Names : OnConsumer(n)
  \/ \E cb \in GlobalCallbacks : OnGlobalListener(cb)
  \/ Iterate
  \/ \E n \in Names : Emit(n)
  \/ \E s \in 1..MaxCalls : ReaderNext(s)
  \/ \E n \in Names : OffName(n)
  \/ OffAll
  \/ Steps

Spec == Init /\ [][Next]_vars

\* The same on one event, with its pull consumers and the global ones.
CoreNext ==
  \/ On("foo", "f")
  \/ OnConsumer("foo")
  \/ Iterate
  \/ Emit("foo")
  \/ \E s \in 1..MaxCalls : ReaderNext(s)
  \/ OffName("foo")
  \/ OffAll
  \/ Steps

CoreSpec == Init /\ [][CoreNext]_vars

\* The listener registry and the listener loop of emit on one event, with
\* listener functions that register, remove and emit while they run; no pull
\* consumer.
DispatchNext ==
  \/ \E cb \in Callbacks : On("foo", cb)
  \/ \E cb \in Callbacks : Once("foo", cb)
  \/ \E cb \in Callbacks : OffListener("foo", cb)
  \/ Emit("foo")
  \/ ListenerStep
  \/ EmitToWriters

DispatchSpec == Init /\ [][DispatchNext]_vars

\* Emitters constructed with no limit, or with a limit that the calls of a
\* behaviour can reach, on one event: every way of registering, every way of
\* removing, and emit.  Nobody reads the consumers.
Limits == {0, 1, 2}

LimitInit == \E l \in Limits : InitWith(l)

LimitNext ==
  \/ On("foo", "f")
  \/ Once("foo", "f")
  \/ OncePromise("foo")
  \/ OnConsumer("foo")
  \/ Iterate
  \/ OffListener("foo", "f")
  \/ OffName("foo")
  \/ OffAll
  \/ Emit("foo")
  \/ ListenerStep
  \/ EmitToWriters
  \/ \E o \in 1..MaxCalls : OffResume(o)

LimitSpec == LimitInit /\ [][LimitNext]_vars

\* Listeners on two events registered, removed by off(name, cb) and called,
\* next to pull consumers: the functions are "f" and "remover", which itself
\* calls off(name, "f").
Removables == {"f", "remover"}

RemoveNext ==
  \/ \E n \in Names, cb \in Removables : On(n, cb)
  \/ Once("foo", "f")
  \/ OnConsumer("bar")
  \/ \E n \in Names, cb \in Removables : OffListener(n, cb)
  \/ \E n \in Names : Emit(n)
  \/ ListenerStep
  \/ EmitToWriters

RemoveSpec == Init /\ [][RemoveNext]_vars

\* once(name) promises on one event, next to listeners "f" and "again", the
\* function that emits the event again from inside the listener loop.
Waiters == {"f", "again"}

PromiseNext ==
  \/ \E cb \in Waiters : On("foo", cb)
  \/ OncePromise("foo")
  \/ Emit("foo")
  \/ ListenerStep
  \/ EmitToWriters

PromiseSpec == Init /\ [][PromiseNext]_vars

\* off("foo") next to the listeners and the consumers of "bar" and the
\* global consumers, with the emits of "bar" and the readers; no off().
FrameNext ==
  \/ \E n \in Names : On(n, "f")
  \/ \E n \in Names : OnConsumer(n)
  \/ Iterate
  \/ Emit("bar")
  \/ \E s \in 1..MaxCalls : ReaderNext(s)
  \/ OffName("foo")
  \/ Steps

FrameSpec == Init /\ [][FrameNext]_vars

\* Listeners that subscribe a pull consumer to the event while emit calls
\* them, next to consumers created by the caller, and the readers.
SubNext ==
  \/ \E cb \in Subscribers \cup {"f"} : On("foo", cb)
  \/ OnConsumer("foo")
  \/ Iterate
  \/ Emit("foo")
  \/ \E s \in 1..MaxCalls : ReaderNext(s)
  \/ ListenerStep
  \/ EmitToWriters
  \/ \E e \in 1..MaxCalls : EmitResume(e)

SubSpec == Init /\ [][SubNext]_vars

\* A single caller that awaits every emit before it makes the next one, on
\* two events, with pull consumers, their readers and off.  The consumers
\* are all there before the first emit.
Settled(st) ==
  \A e \in 1..Len(st.emits) : st.emits[e].status \in {"resolved", "rejected"}

SeqEmit(name) == Settled(Cur) /\ Emit(name)

SeqOnConsumer(name) == emits = <<>> /\ OnConsumer(name)

SeqIterate == emits = <<>> /\ Iterate

SeqNext ==
  \/ \E n \in Names : SeqOnConsumer(n)
  \/ SeqIterate
  \/ \E n \in Names : SeqEmit(n)
  \/ \E s \in 1..MaxCalls : ReaderNext(s)
  \/ \E n \in Names : OffName(n)
  \/ OffAll
  \/ EmitToWriters
  \/ \E e \in 1..MaxCalls : EmitResume(e)
  \/ \E o \in 1..MaxCalls : OffResume(o)

SeqSpec == Init /\ [][SeqNext]_vars

\* The test "closeMixed" of src/test.ts: one pull consumer on "foo" and one
\* global pull consumer, both iterated by for-await loops; a timer emits
\* "foo" once; the loop over the global consumer calls off() (close() in the
\* test) in its body, that is once it has got an element.
HasConsumer(key) == \E s \in 1..Len(streams) : streams[s].key = key

MixedOnConsumer == ~HasConsumer("foo") /\ OnConsumer("foo")

MixedIterate == ~HasConsumer("*") /\ Iterate

MixedEmit == HasConsumer("foo") /\ HasConsumer("*") /\ emits = <<>> /\ Emit("foo")

MixedOff ==
  /\ offs = <<>>
  /\ \E s \in 1..Len(streams) : streams[s].key = "*" /\ streams[s].received # <<>>
  /\ OffAll

\* A listener on "foo" may be there as well.
MixedOn == nregs = 0 /\ emits = <<>> /\ On("foo", "f")

MixedNext ==
  \/ MixedOn
  \/ MixedOnConsumer
  \/ MixedIterate
  \/ MixedEmit
  \/ \E s \in 1..MaxCalls : ReaderNext(s)
  \/ MixedOff
  \/ ListenerStep
  \/ EmitToWriters
  \/ \E e \in 1..MaxCalls : EmitResume(e)
  \/ \E o \in 1..MaxCalls : OffResume(o)

\* The timer fires, the loops keep asking for the next element, and the jobs
\* of suspended calls are run.
MixedSpec ==
  /\ Init
  /\ [][MixedNext]_vars
  /\ WF_vars(MixedOnConsumer)
  /\ WF_vars(MixedIterate)
  /\ WF_vars(MixedEmit)
  /\ WF_vars(MixedOff)
  /\ WF_vars(ListenerStep)
  /\ WF_vars(EmitToWriters)
  /\ \A s \in 1..MaxCalls : WF_vars(ReaderNext(s))
  /\ \A e \in 1..MaxCalls : WF_vars(EmitResume(e))
  /\ \A o \in 1..MaxCalls : WF_vars(OffResume(o))

\* ---------------------------------------------------------- properties
EmitIds == 1..Len(emits)
StreamIds == 1..Len(streams)
OffIds == 1..Len(offs)

\* The listener calls of a trace, and its writes.
CbEvents(tr) == SelectSeq(tr, LAMBDA ev : ev.t = "cb")
WriteEvents(tr) == SelectSeq(tr, LAMBDA ev : ev.t = "w")

IsGlobalWrite(ev) == ev.t = "w" /\ streams[ev.x].key = "*"
IsEventWrite(ev) == ev.t = "w" /\ streams[ev.x].key # "*"

\* Emit e has a write queued on stream s that the reader has not taken.
WritePending(e, s) == \E q \in 1..Len(streams[s].wq) : streams[s].wq[q].e = e

\* C1: within one emit call, every listener registered on the name when the
\* call started has been called, in registration order, before the first
\* write to a consumer; every write to a per-event consumer has completed
\* before the first write to a global consumer; and the consumers of each
\* group are written in the order they were registered (streams are numbered
\* as they are created).
C1_DispatchOrder ==
  \A e \in EmitIds :
    LET tr == emits[e].trace
        cbs == CbEvents(tr)
    IN /\ \A a, b \in 1..Len(tr) :
            a < b =>
              /\ ~(tr[a].t = "w" /\ tr[b].t = "cb")
              /\ ~(IsGlobalWrite(tr[a]) /\ IsEventWrite(tr[b]))
              /\ (IsEventWrite(tr[a]) /\ IsEventWrite(tr[b])) => tr[a].x < tr[b].x
              /\ (IsGlobalWrite(tr[a]) /\ IsGlobalWrite(tr[b])) => tr[a].x < tr[b].x
              /\ (IsEventWrite(tr[a]) /\ IsGlobalWrite(tr[b])) =>
                    ~WritePending(e, tr[a].x)
              /\ IsEventWrite(tr[a]) => streams[tr[a].x].key = emits[e].name
       /\ WriteEvents(tr) # <<>> =>
            [k \in 1..Len(cbs) |-> cbs[k].x]
              = [k \in 1..Len(emits[e].start) |-> emits[e].start[k].id]

\* An emit call that called two listeners, then wrote a per-event consumer,
\* then a global one, and resolved.
C1_Witness ==
  \E e \in EmitIds :
    /\ emits[e].status = "resolved"
    /\ Len(emits[e].trace) = 4
    /\ emits[e].trace[1].t = "cb"
    /\ emits[e].trace[2].t = "cb"
    /\ IsEventWrite(emits[e].trace[3])
    /\ IsGlobalWrite(emits[e].trace[4])

\* C2: once the listener loop of an emit call is over, the listeners it
\* called are exactly the entries that were in listeners[name] when the call
\* started, each once, in order and with the call's own arguments, whatever
\* the callbacks added to or removed from the list meanwhile (so an entry
\* added during the loop was not called); before that, they are the first
\* ones of that list.
C2_SnapshotPass ==
  \A e \in EmitIds :
    LET cbs == CbEvents(emits[e].trace)
        start == emits[e].start
    IN /\ Len(cbs) <= Len(start)
       /\ \A k \in 1..Len(cbs) :
            /\ cbs[k].x = start[k].id
            /\ cbs[k].v = <<emits[e].payload>>
       /\ emits[e].phase # "listeners" => Len(cbs) = Len(start)

\* An emit call whose loop is over and that called "remover" and then the
\* entry for "f" that "remover" had just taken off the list.
C2_Witness ==
  \E e \in EmitIds :
    LET cbs == CbEvents(emits[e].trace)
    IN /\ emits[e].phase # "listeners"
       /\ \E a, b \in 1..Len(cbs) :
            a < b /\ cbs[a].cb = "remover" /\ cbs[b].cb = "f"

\* How often entry id was called, over all emit calls.
RECURSIVE CallsOf(_, _)
CallsOf(id, e) ==
  IF e = 0 THEN 0
  ELSE CallsOf(id, e - 1)
       + Len(SelectSeq(emits[e].trace, LAMBDA ev : ev.t = "cb" /\ ev.x = id))

\* C3: an entry registered by once(name, cb) is never called more than once,
\* over all emit calls, nested ones included, and it has been called once
\* when the listener loop of an emit call that started with it is over.
C3_OnceExactlyOnce ==
  \A e \in EmitIds :
    \A k \in 1..Len(emits[e].start) :
      emits[e].start[k].once =>
        /\ CallsOf(emits[e].start[k].id, Len(emits)) <= 1
        /\ emits[e].phase # "listeners" =>
             CallsOf(emits[e].start[k].id, Len(emits)) = 1

\* The entries that the step's emit calls hold as the listener just called.
FiredOnce == {emits'[e].cur.id : e \in {x \in 1..Len(emits') : emits'[x].cur.once}}

\* C4: a step in which no call into the emitter is made (so no off(name, cb)
\* by a caller or a callback) takes off a listener list at most the once
\* entries that were just called: every other entry, the persistent and the
\* one-shot registrations of the same function included, stays on it.
C4_OnceRemovesOnlyItself ==
  [][ncalls' = ncalls =>
       \A k \in Names : Ids(listeners[k]) \ Ids(listeners'[k]) \subseteq FiredOnce]_vars

\* C5: every emit call made after on(cb) calls cb exactly once, with the
\* event's name and arguments, between the per-event listeners and the first
\* write, and on(cb) creates no pull consumer.
C5_GlobalListener ==
  /\ \A s \in StreamIds : streams[s].key \notin GlobalCallbacks
  /\ \A e \in EmitIds :
       emits[e].phase # "listeners" =>
         \A cb \in emits[e].globals :
           Len(SelectSeq(emits[e].trace, LAMBDA ev : ev.t = "cb" /\ ev.cb = cb)) = 1

\* C6: an emit call made after off(name) or off() was called calls none of
\* the listeners which that off was to remove, whether or not the off has
\* completed.
C6_OffStopsListeners ==
  \A e \in EmitIds :
    \A k \in 1..Len(emits[e].trace) :
      emits[e].trace[k].t = "cb" => emits[e].trace[k].x \notin emits[e].banned

\* C7: while an off has not completed, the program can take a step of its own
\* (a suspended emit or off continues): the completion of an off never hangs
\* on a reader pulling another element.
C7_OffCompletes ==
  (\E o \in OffIds : offs[o].status \in {"waiting", "ready"}) => ENABLED Steps

\* C8: emit writes only to consumers that are open, and its promise never
\* rejects.
C8_EmitWritesOpenOnly ==
  \A e \in EmitIds :
    /\ emits[e].status # "rejected"
    /\ \A k \in 1..Len(emits[e].trace) :
         emits[e].trace[k].t = "w" => emits[e].trace[k].st = "open"

\* s1 is the beginning of s2.
IsPrefix(s1, s2) == Len(s1) <= Len(s2) /\ SubSeq(s2, 1, Len(s1)) = s1

\* C9: a reader gets the chunks in the order the writer accepted them, and
\* when it sees the end of the sequence it has got every chunk that the
\* writer accepted (all those written before off closed the consumer: later
\* ones are refused) and nothing is left queued, so that nothing can follow
\* the end.
C9_DrainBeforeEnd ==
  \A s \in StreamIds :
    /\ IsPrefix(streams[s].received, streams[s].written)
    /\ streams[s].done =>
         /\ streams[s].received = streams[s].written
         /\ streams[s].wq = <<>>
         /\ streams[s].state = "closed"

\* A reader that has seen the end of a consumer which off closed while two
\* writes were waiting on it, and has got both chunks.
C9_Witness ==
  \E s \in StreamIds :
    /\ streams[s].done
    /\ streams[s].closer # 0
    /\ Len(streams[s].received) = 2

\* The outcome of "closeMixed": the emit and the off have resolved, and each
\* reader has seen the end after exactly one element, the arguments for the
\* consumer on "foo" and {name, value} for the global one.
MixedDone ==
  /\ Len(emits) = 1 /\ emits[1].status = "resolved"
  /\ Len(offs) = 1 /\ offs[1].status = "resolved"
  /\ Len(streams) = 2
  /\ \A s \in StreamIds :
       /\ streams[s].done
       /\ Len(streams[s].received) = 1
       /\ streams[s].key = "foo" =>
            streams[s].received[1] = <<emits[1].payload>>
       /\ streams[s].key = "*" =>
            /\ streams[s].received[1].name = "foo"
            /\ streams[s].received[1].value = <<emits[1].payload>>

\* C10: with a consumer on the event and a global consumer both being
\* iterated, one emit and the off() that follows it end with each reader
\* having got exactly its one element and then the end of the sequence, with
\* no rejection; and it stays so.
C10_MixedDelivery == <>[]MixedDone

C10_Witness == MixedDone

\* Stream s is one that emit e has to deliver to: a consumer on the call's
\* event name or a global one.
Matches(e, s) == streams[s].key \in {emits[e].name, "*"}

\* What consumer s gets from emit e.
ChunkFor(e, s) ==
  IF streams[s].key = "*"
  THEN [name |-> emits[e].name, value |-> <<emits[e].payload>>]
  ELSE <<emits[e].payload>>

\* The payload inside a chunk that consumer s got.
PayloadOf(s, chunk) == IF streams[s].key = "*" THEN chunk.value[1] ELSE chunk[1]

\* C11: with emit calls made one after the other, each awaited, a consumer
\* gets the payloads in the order of the calls, none twice, and a consumer
\* that is still open has got the payload of every emit call on its event
\* that has resolved (the consumers were all created before the first emit).
C11_SequentialFifo ==
  \A s \in StreamIds :
    LET got == streams[s].received
    IN /\ \A a, b \in 1..Len(got) :
            a < b => PayloadOf(s, got[a]) < PayloadOf(s, got[b])
       /\ streams[s].state = "open" =>
            \A e \in EmitIds :
              (emits[e].status = "resolved" /\ Matches(e, s)) =>
                \E a \in 1..Len(got) : got[a] = ChunkFor(e, s)

\* The writer arrays that the emitter holds: those of onWriters and
\* globalWriters.
RegistryArrays == {onWriters[i].arr : i \in 1..Len(onWriters)} \cup {globalWriters}

\* C12: with a limit other than 0, no listener list (on, once with and
\* without a callback together), no array of consumers of an event and not
\* the array of global consumers ever holds more entries than the limit;
\* with limit 0 no registration call has thrown.
C12_LimitBounds ==
  /\ limit # 0 =>
       /\ \A n \in Names : Len(listeners[n]) <= limit
       /\ \A a \in RegistryArrays : Len(arrays[a]) <= limit
  /\ limit = 0 => thrown = 0

\* An emitter with limit 2 holding a pending once(name) promise and another
\* listener, two consumers on the event, and a registration that was refused.
C12_Witness ==
  /\ limit = 2
  /\ Len(listeners["foo"]) = 2
  /\ \E k \in 1..Len(promises) : promises[k].value = <<>>
  /\ \E a \in RegistryArrays : Len(arrays[a]) = 2
  /\ thrown > 0

\* C13: a registration call that throws leaves the listener lists, the
\* consumer arrays, the consumers and the promises as they were, and a list
\* or array that is at the limit (other than 0) is not added to: the call
\* that tries throws in that very step.
C13_RejectedRegistration ==
  [][/\ thrown' # thrown =>
          /\ thrown' = thrown + 1
          /\ ncalls' = ncalls + 1
          /\ UNCHANGED <<listeners, onWriters, globalWriters, arrays, streams,
                         promises, nregs>>
     /\ \A n \in Names :
          (limit # 0 /\ Len(listeners[n]) >= limit) =>
             Len(listeners'[n]) <= Len(listeners[n])
     /\ \A a \in RegistryArrays :
          (limit # 0 /\ Len(arrays[a]) >= limit) => arrays'[a] = arrays[a]]_vars

\* A listener and a consumer have each been refused at the limit 1: the list
\* holds one listener, the array one consumer, and two calls have thrown.
C13_Witness ==
  /\ limit = 1
  /\ thrown = 2
  /\ Len(listeners["foo"]) = 1
  /\ Len(streams) = 1
  /\ \E a \in RegistryArrays : arrays[a] = <<1>>

\* Every entry of list ls2 is an entry of list ls1, and ls2 is in the order
\* of registration.
KeepsOrder(ls1, ls2) ==
  /\ \A i \in 1..Len(ls2) : \E j \in 1..Len(ls1) : ls1[j] = ls2[i]
  /\ \A i, j \in 1..Len(ls2) : i < j => ls2[i].id < ls2[j].id

\* C14: the step of a call off(name, cb) leaves in listeners[name] exactly
\* the entries of other functions, in their order; it leaves the lists of the
\* other events, the consumer arrays and the consumers as they were; and the
\* effect is there when the call returns, for an emit call takes as its
\* snapshot the list as it is at the call.
C14_OffListenerExact ==
  [][/\ \A n \in Names, cb \in Removables :
          OffListener(n, cb) =>
            /\ Ids(listeners'[n])
                 = {listeners[n][i].id :
                      i \in {x \in 1..Len(listeners[n]) : listeners[n][x].cb # cb}}
            /\ KeepsOrder(listeners[n], listeners'[n])
            /\ \A m \in Names \ {n} : listeners'[m] = listeners[m]
            /\ UNCHANGED <<onWriters, globalWriters, arrays, streams>>
     /\ Len(emits') > Len(emits) =>
          emits'[Len(emits')].snap = listeners[emits'[Len(emits')].name]]_vars

\* off("foo", "f") has removed both registrations of "f" around the one of
\* "remover", which stays, with a consumer on the other event untouched; no
\* emit was made, so it was the call that removed them.
C14_Witness ==
  /\ emits = <<>>
  /\ nregs = 3
  /\ Len(listeners["foo"]) = 1
  /\ listeners["foo"][1].cb = "remover"
  /\ listeners["foo"][1].id = 2
  /\ Len(streams) = 1
  /\ streams[1].state = "open"

\* The chunk of the k-th event of emit e, a write, has reached the reader.
Taken(e, k) ==
  \E a \in 1..Len(streams[emits[e].trace[k].x].received) :
    streams[emits[e].trace[k].x].received[a] = emits[e].trace[k].v

\* C15: an emit call that has resolved has called every listener that was
\* registered at the call, and the reader of every consumer it wrote to has
\* taken the chunk; when the call writes to a consumer, the chunks of all
\* its earlier writes have been taken; and while a chunk of the call has not
\* been taken the call is suspended, on that very write.
C15_EmitResolvesLast ==
  \A e \in EmitIds :
    LET tr == emits[e].trace
    IN /\ emits[e].status = "resolved" =>
            /\ Len(CbEvents(tr)) = Len(emits[e].start)
            /\ \A k \in 1..Len(tr) : tr[k].t = "w" => Taken(e, k)
       /\ \A a, b \in 1..Len(tr) :
            (a < b /\ tr[a].t = "w" /\ tr[b].t = "w") =>
              Taken(e, a) /\ ~WritePending(e, tr[a].x)
       /\ \A s \in StreamIds :
            WritePending(e, s) =>
              /\ emits[e].status = "waiting"
              /\ tr[Len(tr)].t = "w"
              /\ tr[Len(tr)].x = s
              /\ ~Taken(e, Len(tr))

\* An emit call suspended on its write to the global consumer, after a
\* listener call and a write to the consumer of the event that its reader
\* has taken.
C15_Witness ==
  \E e \in EmitIds :
    /\ emits[e].status = "waiting"
    /\ Len(emits[e].trace) = 3
    /\ emits[e].trace[1].t = "cb"
    /\ IsEventWrite(emits[e].trace[2])
    /\ Taken(e, 2)
    /\ IsGlobalWrite(emits[e].trace[3])
    /\ WritePending(e, emits[e].trace[3].x)

\* The emit calls on the event of promise k made after once(name) returned
\* it, numbered in the order in which they were made.
EmitsAfter(k) ==
  {e \in EmitIds : e > promises[k].born /\ emits[e].name = promises[k].name}

FirstEmitAfter(k) == CHOOSE e \in EmitsAfter(k) : \A x \in EmitsAfter(k) : e <= x

\* The entry of promise k is on the listener list of its event.
HoldsSlot(k) ==
  \E i \in 1..Len(listeners[promises[k].name]) :
    listeners[promises[k].name][i].cb = promises[k].cb

\* C16: a promise of once(name) is resolved with the arguments of the first
\* emit call on the name made after once(name) and with no others; its entry
\* is on the listener list until that call and, by the end of the listener
\* loop of that call, off it and the promise resolved.
C16_OncePromise ==
  \A k \in 1..Len(promises) :
    /\ promises[k].value # <<>> =>
         /\ EmitsAfter(k) # {}
         /\ promises[k].value = <<emits[FirstEmitAfter(k)].payload>>
    /\ EmitsAfter(k) = {} => HoldsSlot(k) /\ promises[k].value = <<>>
    /\ (EmitsAfter(k) # {} /\ emits[FirstEmitAfter(k)].phase # "listeners") =>
         ~HoldsSlot(k) /\ promises[k].value # <<>>

\* The step is one of a call off(n): the call itself, or a continuation of
\* it after a close.
OffNameStep(n) ==
  \/ /\ Len(offs') > Len(offs)
     /\ ~offs'[Len(offs')].all
     /\ offs'[Len(offs')].target = n
  \/ \E o \in OffIds :
       offs'[o] # offs[o] /\ ~offs[o].all /\ offs[o].target = n

\* C17: a step of off(n) leaves the listener list and the consumer array of
\* every other event as they were, and the array of global consumers, and
\* every consumer that is not one of n: registered and open as before.
C17_OffNameFrame ==
  [][\A n \in Names :
       OffNameStep(n) =>
         /\ \A m \in Names \ {n} :
              /\ listeners'[m] = listeners[m]
              /\ WritersOf(onWriters', m) = WritersOf(onWriters, m)
              /\ WritersOf(onWriters, m) # 0 =>
                   arrays'[WritersOf(onWriters, m)] = arrays[WritersOf(onWriters, m)]
         /\ globalWriters' = globalWriters
         /\ arrays'[globalWriters] = arrays[globalWriters]
         /\ \A s \in StreamIds :
              streams[s].key # n => streams'[s] = streams[s]]_vars

\* off("foo") has closed a consumer of "foo" and resolved, and an emit of
\* "bar" made after it has delivered to the consumer of "bar" and to the
\* global consumer.
C17_Witness ==
  /\ \E o \in OffIds :
       offs[o].target = "foo" /\ offs[o].status = "resolved" /\ offs[o].closed # <<>>
  /\ \E e \in EmitIds :
       /\ emits[e].name = "bar"
       /\ emits[e].banned = {}
       /\ emits[e].status = "resolved"
       /\ Len(emits[e].trace) = 2
       /\ Taken(e, 1)
       /\ Taken(e, 2)

\* C18: a consumer that a listener callback created on the event during the
\* listener loop of an emit call is written by that call, with the call's
\* arguments: the call does not settle without the write, and once it has
\* resolved the reader has got the arguments.
C18_LiveConsumerLookup ==
  \A e \in EmitIds :
    \A m \in 1..Len(emits[e].made) :
      LET s == emits[e].made[m]
      IN /\ streams[s].key = emits[e].name
         /\ emits[e].status \in {"resolved", "rejected"} =>
              \E k \in 1..Len(emits[e].trace) :
                /\ emits[e].trace[k].t = "w"
                /\ emits[e].trace[k].x = s
                /\ emits[e].trace[k].v = <<emits[e].payload>>
         /\ emits[e].status = "resolved" =>
              \E a \in 1..Len(streams[s].received) :
                streams[s].received[a] = <<emits[e].payload>>

\* An emit call has resolved after writing to a consumer that was there
\* before it and to one that the listener "sub" created during its loop.
C18_Witness ==
  \E e \in EmitIds :
    /\ emits[e].status = "resolved"
    /\ emits[e].made # <<>>
    /\ Len(WriteEvents(emits[e].trace)) = 2
    /\ \A k \in 1..Len(emits[e].trace) :
         emits[e].trace[k].t = "w" => Taken(e, k)

\* Consumer s is held by the emitter: its writer is in an array of onWriters
\* or in globalWriters.
InRegistry(s) ==
  \E a \in RegistryArrays : \E i \in 1..Len(arrays[a]) : arrays[a][i] = s

\* C19: every consumer that is open is held by the emitter, so that emit
\* still writes to it and off can still close it.
C19_OpenConsumersRegistered ==
  \A s \in StreamIds : streams[s].state = "open" => InRegistry(s)

\* C20: a step takes off the listener lists only entries that were
\* registered when some off(name) or off() was called for them (the listeners
\* of Spec are never removed otherwise): an entry registered while off was
\* suspended stays.
C20_OffSparesLaterListeners ==
  [][\A n \in Names : Ids(listeners[n]) \ Ids(listeners'[n]) \subseteq offTargets']_vars
====
